---------------------------- MODULE Spec2Model ----------------------------
(***************************************************************************)
(* Model of the AI-Bot chat application: the Streamlit session script      *)
(* (streamlit_app.py: main, GeminiChatBot.generate_response,               *)
(* save_chat_history) and the utility library (utils.py: validation,       *)
(* truncation, statistics, the file-backed store of chat histories).       *)
(*                                                                         *)
(* Text is modelled as a sequence of characters (one-character strings);   *)
(* a fixed phrase of the program (a notice, the system prompt) is one      *)
(* element.  An Optional value is a sequence of length at most one:        *)
(* None is <<>> and a value v is <<v>>.                                    *)
(***************************************************************************)
EXTENDS Integers, Sequences, FiniteSets, TLC

VARIABLES
    chat_history,   \* st.session_state.chat_history: the session transcript
    context,        \* Optional: the prompt last passed to model.generate_content
    called,         \* whether the latest run of main called the model client
    varied,         \* history: inputs since the last clear that are not the default
    appended,       \* history: every message appended since the last clear
    message,        \* the argument of validate_message
    valid,          \* Optional: the value validate_message returned
    files,          \* the file system: path -> JSON document
    clock,          \* datetime.now(), in seconds after the epoch of the model
    saves,          \* history: the successful calls of utils.save_chat_history
    loaded,         \* Optional: the last call of load_chat_history and its result
    given_max_length, \* Optional: the max_length given to truncate_chat_history
    truncated       \* Optional: the list truncate_chat_history returned

vars == <<chat_history, context, called, varied, appended, message, valid,
          files, clock, saves, loaded, given_max_length, truncated>>

-----------------------------------------------------------------------------
(* Bounds of the model.                                                    *)

\* Turns (accepted submits) explored since the last clear.
MaxTurns == 27
\* Inputs since the last clear (prompts, model outcomes) that are not the default.
MaxVaried == 1
\* Length of the short messages given to validate_message.
MaxMsgLen == 5
\* Length of the transcripts given to the context assembler.
MaxTranscript == 11
\* Seconds the clock can advance.
MaxClock == 1
\* Calls of utils.save_chat_history in one run of the store.
MaxSaves == 2
\* The largest max_length given to truncate_chat_history.
MaxCap == 4
\* Turns since the last clear of a session that saves its history.
MaxSavedTurns == 2

-----------------------------------------------------------------------------
(* Python values.                                                          *)

None == <<>>
Some(v) == <<v>>

Min(a, b) == IF a < b THEN a ELSE b
Max(a, b) == IF a > b THEN a ELSE b

\* s[i:] for a list or string s and an integer i.
SliceFrom(s, i) ==
    LET start == IF i < 0 THEN Max(Len(s) + i, 0) ELSE Min(i, Len(s))
    IN  SubSeq(s, start + 1, Len(s))

\* s[:j] for a list or string s and an integer j.
SliceTo(s, j) ==
    LET stop == IF j < 0 THEN Max(Len(s) + j, 0) ELSE Min(j, Len(s))
    IN  SubSeq(s, 1, stop)

\* The string of n copies of the character c.
Rep(c, n) == [i \in 1..n |-> c]

Whitespace == {" ", "\t", "\n"}

\* str.strip(): the string without its leading and trailing whitespace,
\* found as CPython finds it, by scanning inwards from either end.
strip(s) ==
    LET lead  == CHOOSE k \in 0..Len(s) :
                     /\ \A j \in 1..k : s[j] \in Whitespace
                     /\ k = Len(s) \/ s[k + 1] \notin Whitespace
        trail == CHOOSE k \in 0..(Len(s) - lead) :
                     /\ \A j \in (Len(s) - k + 1)..Len(s) : s[j] \in Whitespace
                     /\ k = Len(s) - lead \/ s[Len(s) - k] \notin Whitespace
    IN  SubSeq(s, lead + 1, Len(s) - trail)

-----------------------------------------------------------------------------
(* config.py                                                               *)

MAX_RESPONSE_LENGTH == 2000
CONFIG_MAX_CHAT_HISTORY == 50

-----------------------------------------------------------------------------
(* utils.validate_message                                                  *)

validate_message_no_length_limit(m) ==
    IF m = <<>> \/ strip(m) = <<>> THEN FALSE
    ELSE IF Len(strip(m)) < 2 THEN FALSE
    ELSE TRUE

validate_message(m) ==
    IF m = <<>> \/ strip(m) = <<>> THEN FALSE
    ELSE IF Len(strip(m)) < 2 THEN FALSE
    ELSE IF Len(m) > MAX_RESPONSE_LENGTH THEN FALSE
    ELSE TRUE

-----------------------------------------------------------------------------
(* utils.truncate_chat_history and utils.get_chat_statistics               *)

\* max_length is Optional[int]: None selects Config.MAX_CHAT_HISTORY.
truncate_chat_history(history, max_length) ==
    LET max == IF max_length = None THEN CONFIG_MAX_CHAT_HISTORY ELSE max_length[1]
    IN  IF Len(history) > max THEN SliceFrom(history, 0 - max) ELSE history

\* len([msg for msg in chat_history if msg["role"] == role])
CountRole(history, role) == Len(SelectSeq(history, LAMBDA msg : msg.role = role))

RECURSIVE TotalChars(_)
TotalChars(history) ==
    IF history = <<>> THEN 0
    ELSE Len(Head(history).content) + TotalChars(Tail(history))

get_chat_statistics_miscounted(history) ==
    IF history = <<>>
    THEN [total_messages |-> 0, user_messages |-> 0, assistant_messages |-> 0,
          avg_message_length |-> 0]
    ELSE [total_messages |-> Len(history),
          user_messages |-> CountRole(history, "user"),
          assistant_messages |-> CountRole(history, "bot"),
          avg_message_length |-> TotalChars(history) \div Len(history)]

get_chat_statistics(history) ==
    IF history = <<>>
    THEN [total_messages |-> 0, user_messages |-> 0, assistant_messages |-> 0,
          avg_message_length |-> 0]
    ELSE [total_messages |-> Len(history),
          user_messages |-> CountRole(history, "user"),
          assistant_messages |-> CountRole(history, "assistant"),
          avg_message_length |-> TotalChars(history) \div Len(history)]

-----------------------------------------------------------------------------
(* streamlit_app.py: the model client and the context it is sent           *)

MAX_CHAT_HISTORY == 50
HISTORY_WINDOW == 10
SYSTEM_PROMPT == <<"SYSTEM_PROMPT">>

Message(role, content) == [role |-> role, content |-> content]

\* The prompt is kept as the sequence of the pieces the code concatenates:
\* the system block, one piece per history message, the completion cue.
Piece(part, label, content) == [part |-> part, label |-> label, content |-> content]

recent_history_whole(history) == history

\* chat_history[-10:] if len(chat_history) > 10 else chat_history
recent_history(history) ==
    IF Len(history) > HISTORY_WINDOW THEN SliceFrom(history, 0 - HISTORY_WINDOW)
    ELSE history

build_context(user_message, history) ==
    LET recent == recent_history(history)
    IN  <<Piece("system", "System Instructions", SYSTEM_PROMPT)>>
        \o [i \in 1..Len(recent) |->
              Piece("line",
                    IF recent[i].role = "user" THEN "Human" ELSE "Assistant",
                    recent[i].content)]
        \o <<Piece("cue", "Human", user_message)>>

APOLOGY == <<"I apologize, but I couldn't generate a response. Please try again.">>
ErrorNotice(e) ==
    <<"Sorry, I encountered an error: ">> \o e \o <<". Please try again later.">>

\* What model.generate_content does with a prompt: it returns a response
\* whose text may be empty, or it raises.
Outcomes ==
    { [kind |-> "response", text |-> <<"o", "k">>],
      [kind |-> "response", text |-> <<>>],
      [kind |-> "raise",    text |-> <<"API key not valid">>] }

generate_response_none_on_error(user_message, history, outcome) ==
    IF outcome.kind = "raise" THEN None
    ELSE IF outcome.text # <<>> THEN Some(outcome.text)
    ELSE Some(APOLOGY)

\* GeminiChatBot.generate_response: Optional[str]
generate_response(user_message, history, outcome) ==
    IF outcome.kind = "raise" THEN Some(ErrorNotice(outcome.text))
    ELSE IF outcome.text # <<>> THEN Some(outcome.text)
    ELSE Some(APOLOGY)

-----------------------------------------------------------------------------
(* streamlit_app.py: main, one run of the script per user action           *)

history_argument_with_current(history) == history

\* st.session_state.chat_history[:-1]
history_argument(history) == SliceTo(history, 0 - 1)

limit_chat_history_keep_oldest(history) ==
    IF Len(history) > MAX_CHAT_HISTORY THEN SliceTo(history, MAX_CHAT_HISTORY)
    ELSE history

limit_chat_history_one_fewer(history) ==
    IF Len(history) > MAX_CHAT_HISTORY
    THEN SliceFrom(history, 0 - (MAX_CHAT_HISTORY - 1))
    ELSE history

\* if len(chat_history) > MAX_CHAT_HISTORY: chat_history = chat_history[-MAX_CHAT_HISTORY:]
limit_chat_history(history) ==
    IF Len(history) > MAX_CHAT_HISTORY THEN SliceFrom(history, 0 - MAX_CHAT_HISTORY)
    ELSE history

Hello == <<"h", "e", "l", "l", "o">>
Prompts == { <<>>, <<" ">>, <<"a">>, Hello }
DefaultOutcome == [kind |-> "response", text |-> <<"o", "k">>]

\* The chat input yields nothing, or text that is only whitespace: the run
\* ends (st.error, return) before it touches the session.
input_rejected(p) == p = <<>> \/ strip(p) = <<>>

SubmitRejected(p) ==
    /\ input_rejected(p)
    /\ called' = FALSE
    /\ UNCHANGED <<chat_history, context, varied, appended>>

SubmitAccepted(p, outcome) ==
    /\ ~ input_rejected(p)
    /\ Len(appended) < 2 * MaxTurns
    /\ LET unusual == (IF p = Hello THEN 0 ELSE 1)
                      + (IF outcome = DefaultOutcome THEN 0 ELSE 1)
           with_user == Append(chat_history, Message("user", p))
           history == history_argument(with_user)
           response == generate_response(p, history, outcome)
           with_reply == IF response # None /\ response[1] # <<>>
                         THEN Append(with_user, Message("assistant", response[1]))
                         ELSE with_user
       IN  /\ varied + unusual <= MaxVaried
           /\ varied' = varied + unusual
           /\ called' = TRUE
           /\ context' = Some(build_context(p, history))
           /\ chat_history' = limit_chat_history(with_reply)
           /\ appended' = appended \o SubSeq(with_reply, Len(chat_history) + 1,
                                             Len(with_reply))

Submit == \E p \in Prompts : \E outcome \in Outcomes :
    /\ SubmitRejected(p) \/ SubmitAccepted(p, outcome)
    /\ UNCHANGED <<message, valid, files, clock, saves, loaded, given_max_length, truncated>>

\* The "Clear Chat History" button.
ClearHistory ==
    /\ chat_history' = <<>>
    /\ appended' = <<>>
    /\ varied' = 0
    /\ called' = FALSE
    /\ UNCHANGED <<context, message, valid, files, clock, saves, loaded,
                   given_max_length, truncated>>

InitSession ==
    /\ chat_history = <<>>
    /\ context = None
    /\ called = FALSE
    /\ varied = 0
    /\ appended = <<>>

IdleValidation ==
    /\ message = <<>>
    /\ valid = None

IdleTruncation ==
    /\ given_max_length = None
    /\ truncated = None

IdleStore ==
    /\ IdleTruncation
    /\ files = <<>>
    /\ clock = 0
    /\ saves = <<>>
    /\ loaded = None

Init == InitSession /\ IdleValidation /\ IdleStore

Next == Submit \/ ClearHistory

Spec == Init /\ [][Next]_vars

-----------------------------------------------------------------------------
(* Properties of the session.                                              *)

\* The last n elements of s, in order (all of s when it is shorter).
LastN(s, n) ==
    LET k == IF Len(s) < n THEN Len(s) ELSE n
    IN  [i \in 1..k |-> s[Len(s) - k + i]]

SubmitOf(p) == SubmitRejected(p) \/ \E outcome \in Outcomes : SubmitAccepted(p, outcome)

\* C1: after any number of completed submits and clears the transcript holds
\* at most MAX_CHAT_HISTORY messages, and they are the last MAX_CHAT_HISTORY
\* of the messages appended since the last clear, in order.
C1_Truncation ==
    /\ Len(chat_history) <= MAX_CHAT_HISTORY
    /\ chat_history = LastN(appended, MAX_CHAT_HISTORY)

C1_Witness ==
    /\ Len(appended) > MAX_CHAT_HISTORY
    /\ Len(chat_history) = MAX_CHAT_HISTORY
    /\ varied > 0

\* C2 (as claimed): a submit of a message that validate_message refuses
\* leaves the transcript as it was and makes no model call.
C2_InvalidRejected ==
    [][\A p \in Prompts :
          (~ validate_message(p) /\ SubmitOf(p))
              => (chat_history' = chat_history /\ called' = FALSE)]_vars

\* What the model client's outcome is shown as: the generated text, or a notice.
IsReplyTo(content, outcome) ==
    IF outcome.kind = "response" /\ outcome.text # <<>>
    THEN content = outcome.text
    ELSE content \in {APOLOGY, ErrorNotice(outcome.text)}

\* C3: every accepted submit appends exactly two messages, the user's
\* message and then one assistant message (the text, or a notice when the
\* model client returns nothing or fails), whatever the model client does.
C3_TwoAppended ==
    [][\A p \in Prompts : \A outcome \in Outcomes :
          SubmitAccepted(p, outcome) =>
              \E reply \in {outcome.text, APOLOGY, ErrorNotice(outcome.text)} :
                  /\ IsReplyTo(reply, outcome)
                  /\ chat_history' =
                         LastN(chat_history \o <<Message("user", p),
                                                 Message("assistant", reply)>>,
                               MAX_CHAT_HISTORY)]_vars

C3_Witness ==
    /\ Len(chat_history) >= 4
    /\ chat_history[Len(chat_history)] =
           Message("assistant", ErrorNotice(<<"API key not valid">>))
    /\ chat_history[Len(chat_history) - 1].role = "user"

\* The numbers the sidebar shows (main): total, user, total - user.
sidebar_statistics(history) ==
    LET total_messages == Len(history)
        user_messages == CountRole(history, "user")
    IN  [total_messages |-> total_messages, user_messages |-> user_messages,
         bot_responses |-> total_messages - user_messages]

\* C9: for every transcript the session reaches, the statistics count all
\* messages, the user's and the assistant's, the two adding up to the total;
\* they are 2, 1 and 1 after one successful submit and 0 for no messages.
C9_Statistics ==
    LET stats == get_chat_statistics(chat_history)
        users == {i \in 1..Len(chat_history) : chat_history[i].role = "user"}
        assistants == {i \in 1..Len(chat_history) : chat_history[i].role = "assistant"}
    IN  /\ stats.total_messages = Len(chat_history)
        /\ stats.user_messages = Cardinality(users)
        /\ stats.assistant_messages = Cardinality(assistants)
        /\ stats.user_messages + stats.assistant_messages = stats.total_messages
        /\ sidebar_statistics(chat_history).bot_responses = Cardinality(assistants)
        /\ Len(appended) = 2 =>
               /\ stats.total_messages = 2
               /\ stats.user_messages = 1
               /\ stats.assistant_messages = 1
        /\ chat_history = <<>> =>
               /\ stats.total_messages = 0
               /\ stats.user_messages = 0
               /\ stats.assistant_messages = 0

C9_Witness ==
    chat_history = <<Message("user", Hello), Message("assistant", <<"o", "k">>)>>

HistoryLines(ctx) == SelectSeq(ctx, LAMBDA piece : piece.part = "line")
Cues(ctx) == SelectSeq(ctx, LAMBDA piece : piece.part = "cue")

\* The history lines that render the messages of a transcript, in order.
Rendered(history) ==
    [i \in 1..Len(history) |->
        Piece("line", IF history[i].role = "user" THEN "Human" ELSE "Assistant",
              history[i].content)]

\* C10: in every submit the history lines of the prompt come from the
\* transcript as it was before the user's message was appended, and the
\* pending message is in the prompt once, as the completion cue at its end.
C10_PendingOnce ==
    [][\A p \in Prompts : \A outcome \in Outcomes :
          SubmitAccepted(p, outcome) =>
              /\ context' # None
              /\ HistoryLines(context'[1]) = Rendered(LastN(chat_history, HISTORY_WINDOW))
              /\ Cues(context'[1]) = <<Piece("cue", "Human", p)>>
              /\ context'[1][Len(context'[1])] = Piece("cue", "Human", p)]_vars

C10_Witness ==
    /\ context # None
    /\ Len(HistoryLines(context[1])) = HISTORY_WINDOW
    /\ Len(appended) > HISTORY_WINDOW + 2
    /\ called

-----------------------------------------------------------------------------
(* validate_message as a function of its argument.                         *)

\* All strings over the alphabet of length at most n.
Strings(alphabet, n) == UNION {[1..k -> alphabet] : k \in 0..n}

Messages ==
    Strings({" ", "a"}, MaxMsgLen)
    \cup {Hello}
    \cup UNION { { Rep("a", n),
                   <<" ">> \o Rep("a", n - 1),
                   <<" ">> \o Rep("a", n - 2) \o <<" ">> } :
                 n \in (MAX_RESPONSE_LENGTH - 1)..(MAX_RESPONSE_LENGTH + 1) }

IdleSession ==
    /\ chat_history = <<>>
    /\ context = None
    /\ called = FALSE
    /\ varied = 0
    /\ appended = <<>>

InitValidate ==
    /\ message \in Messages
    /\ valid = None
    /\ IdleSession /\ IdleStore

Validate ==
    /\ valid = None
    /\ valid' = Some(validate_message(message))
    /\ UNCHANGED <<chat_history, context, called, varied, appended, message,
                   files, clock, saves, loaded, given_max_length, truncated>>

NextValidate == Validate

SpecValidate == InitValidate /\ [][NextValidate]_vars

\* The number of characters of s between its first and its last character
\* that is not whitespace, both included.
TrimmedLength(s) ==
    LET solid == {i \in 1..Len(s) : s[i] \notin Whitespace}
    IN  IF solid = {} THEN 0
        ELSE (CHOOSE i \in solid : (i + 1) \notin solid /\ \A j \in solid : j <= i)
             - (CHOOSE i \in solid : (i - 1) \notin solid /\ \A j \in solid : i <= j) + 1

\* C8: validate accepts a message exactly when its trimmed length is at
\* least 2 and its length is at most MAX_RESPONSE_LENGTH; it rejects "",
\* " " and "a", accepts "hello", and rejects length MAX_RESPONSE_LENGTH + 1.
C8_Validate ==
    valid # None =>
        /\ valid[1] = (TrimmedLength(message) >= 2 /\ Len(message) <= MAX_RESPONSE_LENGTH)
        /\ message \in {<<>>, <<" ">>, <<"a">>} => valid[1] = FALSE
        /\ message = Hello => valid[1] = TRUE
        /\ Len(message) = MAX_RESPONSE_LENGTH + 1 => valid[1] = FALSE

C8_Witness ==
    /\ valid = Some(FALSE)
    /\ Len(message) = MAX_RESPONSE_LENGTH + 1
    /\ TrimmedLength(message) >= 2

-----------------------------------------------------------------------------
(* The context assembler as a function of the transcript.                  *)

Transcripts(n) ==
    UNION {[1..k -> {Message("user", Hello), Message("assistant", <<"o", "k">>)}] :
           k \in 0..n}

InitAssemble ==
    /\ chat_history \in Transcripts(MaxTranscript)
    /\ message \in {Hello, <<"a">>}
    /\ context = None
    /\ called = FALSE
    /\ varied = 0
    /\ appended = <<>>
    /\ valid = None
    /\ IdleStore

\* generate_response(message, chat_history) up to the call of the model.
Assemble ==
    /\ context = None
    /\ context' = Some(build_context(message, chat_history))
    /\ called' = TRUE
    /\ UNCHANGED <<chat_history, varied, appended, message, valid,
                   files, clock, saves, loaded, given_max_length, truncated>>

NextAssemble == Assemble

SpecAssemble == InitAssemble /\ [][NextAssemble]_vars

\* C4 (as claimed): for every window size w >= 0 the prompt holds exactly
\* the last min(len(T), w) messages of T as its history lines, in order.
C4_EveryWindow ==
    context # None =>
        \A w \in 0..MaxTranscript :
            HistoryLines(context[1]) = Rendered(LastN(chat_history, w))

\* C4 (amended): the prompt holds exactly the last min(len(T), 10) messages
\* of T as its history lines, in order, between the system instructions and
\* the cue; for an empty T it is the system instructions and the cue alone.
C4_FixedWindow ==
    context # None =>
        /\ HistoryLines(context[1]) = Rendered(LastN(chat_history, HISTORY_WINDOW))
        /\ context[1] = <<Piece("system", "System Instructions", SYSTEM_PROMPT)>>
                        \o HistoryLines(context[1])
                        \o <<Piece("cue", "Human", message)>>
        /\ chat_history = <<>> => Len(context[1]) = 2

C4_Witness ==
    /\ context # None
    /\ Len(chat_history) > HISTORY_WINDOW
    /\ Len(HistoryLines(context[1])) = HISTORY_WINDOW
    /\ chat_history[1] # chat_history[Len(chat_history)]

-----------------------------------------------------------------------------
(* utils.py: the store of chat histories under Config.CHAT_HISTORY_DIR     *)

CHAT_HISTORY_DIR == <<"chat_histories">>

InvalidChars == {"<", ">", ":", "\"", "/", "\\", "|", "?", "*"}

sanitize_filename_dropping(filename) ==
    SelectSeq(filename, LAMBDA char : char \notin InvalidChars)

\* for char in invalid_chars: filename = filename.replace(char, '_')
sanitize_filename(filename) ==
    [i \in 1..Len(filename) |->
        IF filename[i] \in InvalidChars THEN "_" ELSE filename[i]]

Digits == <<"0", "1", "2", "3", "4", "5", "6", "7", "8", "9">>

\* datetime.now().strftime("%Y%m%d_%H%M%S"), the clock being the seconds
\* after 2024-01-01 00:00:00 (fewer than 60 of them).
strftime(now) ==
    <<"2", "0", "2", "4", "0", "1", "0", "1", "_", "0", "0", "0", "0">>
    \o <<Digits[(now \div 10) + 1], Digits[(now % 10) + 1]>>

DefaultName == <<"c", "h", "a", "t", "_", "h", "i", "s", "t", "o", "r", "y">>
Extension == <<".", "j", "s", "o", "n">>

save_filename_without_timestamp(custom_name, now) ==
    IF custom_name # None /\ custom_name[1] # <<>>
    THEN sanitize_filename(custom_name[1]) \o Extension
    ELSE DefaultName \o Extension

\* The filename save_chat_history builds; custom_name is Optional[str].
save_filename(custom_name, now) ==
    IF custom_name # None /\ custom_name[1] # <<>>
    THEN sanitize_filename(custom_name[1]) \o <<"_">> \o strftime(now) \o Extension
    ELSE DefaultName \o <<"_">> \o strftime(now) \o Extension

\* os.path.join(Config.CHAT_HISTORY_DIR, filename)
filepath(filename) == <<CHAT_HISTORY_DIR, filename>>

\* The values json.dump writes and json.load reads back: a dict with its
\* members, or a list with its items.
JsonDict(members) == [type |-> "dict", value |-> members]
JsonList(items) == [type |-> "list", value |-> items]

chat_data_without_messages(history, now) ==
    JsonDict([timestamp |-> now, message_count |-> Len(history), messages |-> <<>>])

chat_data_miscounted(history, now) ==
    JsonDict([timestamp |-> now, message_count |-> Len(history) + 1,
              messages |-> history])

\* chat_data of save_chat_history
chat_data(history, now) ==
    JsonDict([timestamp |-> now, message_count |-> Len(history), messages |-> history])

\* open(filepath, 'w') and json.dump
Written(fs, path, document) ==
    [q \in (DOMAIN fs) \cup {path} |-> IF q = path THEN document ELSE fs[q]]

load_chat_history_as_is(fs, filename) ==
    IF filepath(filename) \notin DOMAIN fs THEN None
    ELSE Some(fs[filepath(filename)].value)

\* load_chat_history: Optional[List[Dict]]
load_chat_history(fs, filename) ==
    IF filepath(filename) \notin DOMAIN fs THEN None
    ELSE LET data == fs[filepath(filename)]
         IN  IF data.type = "dict" /\ "messages" \in DOMAIN data.value
             THEN Some(data.value.messages)
             ELSE Some(data.value)

StoredTranscripts ==
    { <<>>,
      <<Message("user", Hello)>>,
      <<Message("user", Hello), Message("assistant", <<"o", "k">>)>> }

CustomNames ==
    { None, Some(<<>>), Some(<<"a", "/", "b">>), Some(<<"a", ":", "b">>),
      Some(DefaultName) }

LegacyFile == <<"o", "l", "d">> \o Extension

\* save_chat_history(history, custom_name); failed: opening the file raises.
Save(history, custom_name, failed) ==
    /\ Len(saves) < MaxSaves
    /\ LET filename == save_filename(custom_name, clock)
       IN  IF failed
           THEN UNCHANGED <<files, saves, loaded>>
           ELSE /\ files' = Written(files, filepath(filename), chat_data(history, clock))
                /\ saves' = Append(saves, [custom_name |-> custom_name,
                                           second |-> clock,
                                           filename |-> filename,
                                           path |-> filepath(filename),
                                           history |-> history])
                /\ loaded' = None
    /\ UNCHANGED <<chat_history, context, called, varied, appended, message, valid,
                   clock, given_max_length, truncated>>

\* load_chat_history(filename) of a name a save returned, of the file of an
\* earlier version, or of a name that is no file.
Load(filename) ==
    /\ loaded' = Some([filename |-> filename,
                       result |-> load_chat_history(files, filename)])
    /\ UNCHANGED <<chat_history, context, called, varied, appended, message, valid,
                   files, clock, saves, given_max_length, truncated>>

Tick ==
    /\ clock < MaxClock
    /\ clock' = clock + 1
    /\ UNCHANGED <<chat_history, context, called, varied, appended, message, valid,
                   files, saves, loaded, given_max_length, truncated>>

\* The directory is empty, or holds a history written by an earlier version
\* as a bare list of messages.
InitStore ==
    /\ files \in { <<>>,
                   Written(<<>>, filepath(LegacyFile),
                           JsonList(<<Message("user", Hello)>>)) }
    /\ clock = 0
    /\ saves = <<>>
    /\ loaded = None
    /\ IdleSession /\ IdleValidation /\ IdleTruncation

NextStore ==
    \/ \E history \in StoredTranscripts : \E custom_name \in CustomNames :
           \E failed \in BOOLEAN : Save(history, custom_name, failed)
    \/ \E filename \in {saves[i].filename : i \in 1..Len(saves)}
                       \cup {LegacyFile, DefaultName \o Extension} : Load(filename)
    \/ Tick

SpecStore == InitStore /\ [][NextStore]_vars

C7_SameNameSameSecond ==
    \A i, j \in 1..Len(saves) :
        (i # j /\ saves[i].filename = saves[j].filename)
            => /\ saves[i].second = saves[j].second
               /\ saves[i].custom_name = saves[j].custom_name

\* The name a save files a history under: the sanitized custom name, or
\* "chat_history" when no name, or an empty one, is given.
FiledUnder(custom_name) ==
    IF custom_name = None \/ custom_name = Some(<<>>) THEN DefaultName
    ELSE [i \in 1..Len(custom_name[1]) |->
             IF custom_name[1][i] \in InvalidChars THEN "_" ELSE custom_name[1][i]]

\* C7 (amended): two saves yield the same filename only if they fall in the
\* same second and their custom names are the same once sanitized, no name
\* and the empty name both standing for "chat_history"; saves in different
\* seconds never overwrite one another.
C7_SameSanitizedNameSameSecond ==
    \A i, j \in 1..Len(saves) :
        (i # j /\ saves[i].filename = saves[j].filename)
            => /\ saves[i].second = saves[j].second
               /\ FiledUnder(saves[i].custom_name) = FiledUnder(saves[j].custom_name)

C7_Witness ==
    /\ Len(saves) = 2
    /\ saves[1].filename = saves[2].filename
    /\ saves[1].custom_name # saves[2].custom_name
    /\ saves[1].custom_name # None /\ saves[2].custom_name # None

-----------------------------------------------------------------------------
(* truncate_chat_history as a function of the list and of max_length.            *)

Caps == {None} \cup {Some(n) : n \in 0..MaxCap}

InitTruncate ==
    /\ chat_history \in Transcripts(MaxTranscript)
    /\ given_max_length \in Caps
    /\ truncated = None
    /\ context = None
    /\ called = FALSE
    /\ varied = 0
    /\ appended = <<>>
    /\ IdleValidation
    /\ files = <<>>
    /\ clock = 0
    /\ saves = <<>>
    /\ loaded = None

Truncate ==
    /\ truncated = None
    /\ truncated' = Some(truncate_chat_history(chat_history, given_max_length))
    /\ UNCHANGED <<chat_history, context, called, varied, appended, message, valid,
                   files, clock, saves, loaded, given_max_length>>

NextTruncate == Truncate

SpecTruncate == InitTruncate /\ [][NextTruncate]_vars

\* C11: for every transcript T and every cap n >= 0 (n = 0 and n = len(T)
\* included) truncation returns the last min(len(T), n) messages of T in
\* order: of length n when len(T) > n, and T itself when len(T) <= n.
C11_Truncate ==
    (truncated # None /\ given_max_length # None) =>
        LET n == given_max_length[1]
        IN  /\ truncated[1] = LastN(chat_history, n)
            /\ Len(chat_history) > n => Len(truncated[1]) = n
            /\ Len(chat_history) <= n => truncated[1] = chat_history

-----------------------------------------------------------------------------
(* The session and its saved histories: main's "Save Chat History" button  *)
(* (streamlit_app.save_chat_history) and the store of utils.py given the   *)
(* session's transcript.                                                   *)

WORKING_DIR == <<".">>

\* filename of streamlit_app.save_chat_history, opened in the working directory
app_save_path(now) ==
    <<WORKING_DIR, DefaultName \o <<"_">> \o strftime(now) \o Extension>>

\* The button: save_chat_history(st.session_state.chat_history) when there is
\* a history, which dumps the bare list; failed: opening the file raises.
SaveHistory(failed) ==
    /\ Len(saves) < MaxSaves
    /\ chat_history # <<>>
    /\ IF failed
       THEN UNCHANGED <<files, saves, loaded>>
       ELSE /\ files' = Written(files, app_save_path(clock), JsonList(chat_history))
            /\ saves' = Append(saves, [custom_name |-> None,
                                       second |-> clock,
                                       filename |-> app_save_path(clock)[2],
                                       path |-> app_save_path(clock),
                                       history |-> chat_history])
            /\ loaded' = None
    /\ called' = FALSE
    /\ UNCHANGED <<chat_history, context, varied, appended, message, valid,
                   clock, given_max_length, truncated>>

\* The button pressed with no history: st.warning, nothing is written.
SaveNothing ==
    /\ chat_history = <<>>
    /\ called' = FALSE
    /\ UNCHANGED <<chat_history, context, varied, appended, message, valid,
                   files, clock, saves, loaded, given_max_length, truncated>>

\* A submit of the session whose history is saved: the usual prompt and reply.
SavedSubmit ==
    /\ Submit
    /\ varied' = 0
    /\ Len(appended') <= 2 * MaxSavedTurns

InitSaved ==
    /\ InitSession
    /\ IdleValidation
    /\ IdleStore

NextSaved ==
    \/ SavedSubmit
    \/ ClearHistory
    \/ \E failed \in BOOLEAN : SaveHistory(failed)
    \/ SaveNothing
    \/ \E failed \in BOOLEAN : Save(chat_history, None, failed)
    \/ \E filename \in {saves[i].filename : i \in 1..Len(saves)} : Load(filename)
    \/ Tick

SpecSaved == InitSaved /\ [][NextSaved]_vars

\* The messages a saved document holds.
SavedMessages(document) ==
    IF document.type = "dict" THEN document.value.messages ELSE document.value

-----------------------------------------------------------------------------
(* The shape of the session's transcript.                                  *)

\* C13: in a session started with an empty transcript and the cap of 50,
\* after any completed submits and clears the transcript has an even number
\* of messages whose roles alternate, user first and assistant last, also
\* once messages have been dropped from the front.
C13_Alternation ==
    /\ Len(chat_history) % 2 = 0
    /\ \A i \in 1..Len(chat_history) :
           chat_history[i].role = (IF i % 2 = 1 THEN "user" ELSE "assistant")

C13_Witness ==
    /\ Len(appended) >= MAX_CHAT_HISTORY + 4
    /\ chat_history = SliceFrom(appended, 0 - MAX_CHAT_HISTORY)
    /\ chat_history[1].role = "user"
    /\ chat_history[MAX_CHAT_HISTORY].role = "assistant"

=============================================================================
